---------------------------- MODULE Spec2Model ----------------------------
(***************************************************************************)
(* State-machine model of the two allocators of the repository:            *)
(*   EarlyAllocator   (arceos/modules/bump_allocator/src/lib.rs)           *)
(*   LabByteAllocator (arceos/labs/lab_allocator/src/lib.rs)               *)
(*                                                                         *)
(* All address arithmetic is usize arithmetic.  A Rust build either        *)
(* checks integer overflow (the operation panics) or wraps modulo 2^w;     *)
(* the variable overflow_checks fixes the build profile in Init and both   *)
(* profiles are explored.                                                  *)
(***************************************************************************)
EXTENDS Integers, Sequences, FiniteSets

VARIABLES
    start, b_pos, p_pos, end,            \* EarlyAllocator fields
    memory_pool_start, memory_pool_size, \* LabByteAllocator fields
    blocks, total_used,
    overflow_checks,                     \* build profile: TRUE = overflow panics
    panicked,                            \* the program has aborted in a panic
    last,                                \* the last call: operation, arguments, result
    prev,                                \* LabByteAllocator: the call before the last
    ncalls,                              \* number of calls made so far
    granted,                             \* EarlyAllocator: what alloc and alloc_pages
                                         \* returned since the last init
    lifecycle,                           \* LabByteAllocator: "new", "active" (init was
                                         \* the first call and the only init), "misused"
    added,                               \* LabByteAllocator: the ranges add_memory took
    live,                                \* LabByteAllocator: <<address, size>> of the
                                         \* allocations returned and not yet given back
    deallocs_ok                          \* LabByteAllocator: every dealloc so far gave
                                         \* back a live allocation with its size

earlyVars == <<start, b_pos, p_pos, end>>
labVars == <<memory_pool_start, memory_pool_size, blocks, total_used>>
labGhost == <<lifecycle, added, live, deallocs_ok>>
vars == <<start, b_pos, p_pos, end, memory_pool_start, memory_pool_size,
          blocks, total_used, overflow_checks, panicked, last, prev, ncalls,
          granted, lifecycle, added, live, deallocs_ok>>

---------------------------------------------------------------------------
(* Bounds of the model *)

\* width of usize in bits
WordBits == 16
\* number of calls explored in one run
MaxCalls == 5
\* capacity of the block table (slots 0 .. NumSlots-1)
NumSlots == 3

\* the const generic PAGE_SIZE, instantiated as in the spec's examples (0x1000)
PAGE_SIZE == 4096

Modulus == 2 ^ WordBits

---------------------------------------------------------------------------
(* usize arithmetic *)

\* the value a wrapping usize operation stores
Wrap(x) == x % Modulus

\* whether the mathematical result of a usize operation is out of range
Overflows(x) == x < 0 \/ x >= Modulus

RECURSIVE BitAndBits(_, _)
\* x & y, bit by bit
BitAndBits(x, y) ==
    IF x = 0 \/ y = 0 THEN 0
    ELSE (x % 2) * (y % 2) + 2 * BitAndBits(x \div 2, y \div 2)

\* x & y on the hexadecimal digits
NibbleAnd == [x \in 0 .. 15 |-> [y \in 0 .. 15 |-> BitAndBits(x, y)]]

RECURSIVE BitAnd(_, _)
\* x & y on usize, one hexadecimal digit at a time
BitAnd(x, y) ==
    IF x = 0 \/ y = 0 THEN 0
    ELSE NibbleAnd[x % 16][y % 16] + 16 * BitAnd(x \div 16, y \div 16)

\* !x on usize
BitNot(x) == Modulus - 1 - x

\* 1 << n: the shift amount is masked to the word width when unchecked
Shl1(n) == 2 ^ (n % WordBits)

---------------------------------------------------------------------------
(* The record of the last call *)

NoCall == [op |-> "new", a |-> 0, b |-> 0, res |-> "Unit", val |-> 0]

Call(op, a, b, res, val) == [op |-> op, a |-> a, b |-> b, res |-> res, val |-> val]

\* a call that returns: the record is stored and the call counted
Returns(op, a, b, res, val) ==
    /\ last' = Call(op, a, b, res, val)
    /\ ncalls' = ncalls + 1
    /\ UNCHANGED <<panicked, overflow_checks, prev>>
    /\ UNCHANGED labGhost

\* a call that panics: the program aborts
Panics(op, a, b) ==
    /\ last' = Call(op, a, b, "Panic", 0)
    /\ ncalls' = ncalls + 1
    /\ panicked' = TRUE
    /\ UNCHANGED <<overflow_checks, prev>>
    /\ UNCHANGED labGhost

\* the same for the LabByteAllocator, whose last two calls are kept
LabReturns(op, a, b, res, val) ==
    /\ last' = Call(op, a, b, res, val)
    /\ prev' = last
    /\ ncalls' = ncalls + 1
    /\ UNCHANGED <<panicked, overflow_checks, granted>>

LabPanics(op, a, b) ==
    /\ last' = Call(op, a, b, "Panic", 0)
    /\ prev' = last
    /\ ncalls' = ncalls + 1
    /\ panicked' = TRUE
    /\ UNCHANGED <<overflow_checks, granted>>

\* a call can be made
CanCall == ~panicked /\ ncalls < MaxCalls

\* an allocation returned by the EarlyAllocator
Grant(kind, addr, size) == [kind |-> kind, addr |-> addr, size |-> size]

\* the LabByteAllocator's lifecycle after a call: init must come first and once
AfterInit == IF lifecycle = "new" THEN "active" ELSE "misused"
AfterCall == IF lifecycle = "new" THEN "misused" ELSE lifecycle

---------------------------------------------------------------------------
(* EarlyAllocator<PAGE_SIZE> *)

\* alloc: (self.b_pos + align - 1) & !(align - 1), in wrapping arithmetic
Early_alloc_start(pos, align) ==
    BitAnd(Wrap(Wrap(pos + align) - 1), BitNot(align - 1))

\* alloc_pages: (alloc_end - size) & !(align - 1), in wrapping arithmetic
Early_page_start(alloc_end, size, align) ==
    BitAnd(Wrap(alloc_end - size), BitNot(align - 1))

Early_init(s, sz) ==
    /\ CanCall
    /\ start' = s
    /\ granted' = {}
    /\ IF overflow_checks /\ Overflows(s + sz)
       THEN /\ UNCHANGED <<b_pos, p_pos, end>>
            /\ Panics("init", s, sz)
       ELSE /\ end' = Wrap(s + sz)
            /\ b_pos' = s
            /\ p_pos' = Wrap(s + sz)
            /\ Returns("init", s, sz, "Unit", 0)
    /\ UNCHANGED labVars

Early_add_memory(s, sz) ==
    /\ CanCall
    /\ UNCHANGED <<earlyVars, granted>>
    /\ Returns("add_memory", s, sz, "NoMemory", 0)
    /\ UNCHANGED labVars

\* A null alloc_start would reach NonNull::new_unchecked(0); the call still
\* returns Ok carrying the address 0.
Early_alloc(size, align) ==
    /\ CanCall
    /\ LET alloc_start == Early_alloc_start(b_pos, align)
           alloc_end == alloc_start + size
       IN  IF overflow_checks /\ (Overflows(b_pos + align) \/ Overflows(alloc_end))
           THEN /\ UNCHANGED <<earlyVars, granted>>
                /\ Panics("alloc", size, align)
           ELSE IF Wrap(alloc_end) > p_pos
                THEN /\ UNCHANGED <<earlyVars, granted>>
                     /\ Returns("alloc", size, align, "NoMemory", 0)
                ELSE /\ b_pos' = Wrap(alloc_end)
                     /\ UNCHANGED <<start, p_pos, end>>
                     /\ granted' = granted \cup {Grant("bytes", alloc_start, size)}
                     /\ Returns("alloc", size, align, "Ok", alloc_start)
    /\ UNCHANGED labVars

\* mutant: dealloc gives the bytes area back
Early_dealloc_frees(pos, size) ==
    /\ CanCall
    /\ b_pos' = start
    /\ UNCHANGED <<start, p_pos, end, granted>>
    /\ Returns("dealloc", pos, size, "Unit", 0)
    /\ UNCHANGED labVars

Early_dealloc(pos, size) ==
    /\ CanCall
    /\ UNCHANGED <<earlyVars, granted>>
    /\ Returns("dealloc", pos, size, "Unit", 0)
    /\ UNCHANGED labVars

Early_total_bytes == Wrap(end - start)

Early_used_bytes == Wrap(b_pos - start)

Early_available_bytes == Wrap(p_pos - b_pos)

Early_alloc_pages(num_pages, align_pow2) ==
    /\ CanCall
    /\ LET align == Shl1(align_pow2)
           size == Wrap(num_pages * PAGE_SIZE)
           alloc_end == p_pos
           alloc_start == Early_page_start(alloc_end, size, align)
       IN  IF overflow_checks /\ (\/ align_pow2 >= WordBits
                                  \/ Overflows(num_pages * PAGE_SIZE)
                                  \/ Overflows(alloc_end - size))
           THEN /\ UNCHANGED <<earlyVars, granted>>
                /\ Panics("alloc_pages", num_pages, align_pow2)
           ELSE IF alloc_start < b_pos \/ alloc_start > alloc_end
                THEN /\ UNCHANGED <<earlyVars, granted>>
                     /\ Returns("alloc_pages", num_pages, align_pow2, "NoMemory", 0)
                ELSE /\ p_pos' = alloc_start
                     /\ UNCHANGED <<start, b_pos, end>>
                     /\ granted' = granted \cup {Grant("pages", alloc_start,
                                                        num_pages * PAGE_SIZE)}
                     /\ Returns("alloc_pages", num_pages, align_pow2, "Ok", alloc_start)
    /\ UNCHANGED labVars

Early_dealloc_pages(pos, num_pages) ==
    /\ CanCall
    /\ UNCHANGED <<earlyVars, granted>>
    /\ Returns("dealloc_pages", pos, num_pages, "Unit", 0)
    /\ UNCHANGED labVars

Early_total_pages == Wrap(end - start) \div PAGE_SIZE

\* mutant: the pages area measured from the wrong cursor
Early_used_pages_from_b_pos == Wrap(end - b_pos) \div PAGE_SIZE

Early_used_pages == Wrap(end - p_pos) \div PAGE_SIZE

Early_available_pages == Wrap(p_pos - b_pos) \div PAGE_SIZE

---------------------------------------------------------------------------
(* Inputs of the EarlyAllocator calls *)

\* a region in the lower half of the address space, one that straddles the
\* middle, and one in the upper half
LowStart == PAGE_SIZE
MidStart == Modulus \div 2 - PAGE_SIZE
HighStart == Modulus \div 2 + PAGE_SIZE
InitStarts == {LowStart, MidStart, HighStart}

\* two pages, and two pages and a half (an end that is not page aligned)
InitSizes == {2 * PAGE_SIZE, 2 * PAGE_SIZE + PAGE_SIZE \div 2}

\* Layouts: size rounded up to align stays below isize::MAX = Modulus/2 - 1
BigSize == Modulus \div 2 - 16
AllocSizes == {8, PAGE_SIZE, BigSize}
AllocAligns == {1, 16}

PageCounts == {1, 4, (Modulus \div 2) \div PAGE_SIZE + 2, Modulus \div PAGE_SIZE}
AlignPow2s == {0, 12, 13, WordBits - 1, WordBits}

---------------------------------------------------------------------------
(* LabByteAllocator *)

Slots == 0 .. (NumSlots - 1)

\* Option<MemoryBlock>
None == [some |-> FALSE, start |-> 0, size |-> 0, in_use |-> FALSE]

Some(s, sz, u) == [some |-> TRUE, start |-> s, size |-> sz, in_use |-> u]

\* the result of a call on the table bl and the counter tu
LabResult(res, val, bl, tu) == [res |-> res, val |-> val, blocks |-> bl, total_used |-> tu]

Lab_init_result(bl, s, sz) == [bl EXCEPT ![0] = Some(s, sz, FALSE)]

Lab_init(s, sz) ==
    /\ CanCall
    /\ memory_pool_start' = s
    /\ memory_pool_size' = sz
    /\ blocks' = Lab_init_result(blocks, s, sz)
    /\ UNCHANGED total_used
    /\ lifecycle' = AfterInit
    /\ UNCHANGED <<added, live, deallocs_ok>>
    /\ LabReturns("init", s, sz, "Unit", 0)
    /\ UNCHANGED earlyVars

\* add_memory: the first slot that is None, or NumSlots when there is none
Lab_first_none(bl) ==
    IF \E i \in Slots : ~bl[i].some
    THEN CHOOSE i \in Slots : ~bl[i].some /\ \A j \in Slots : j < i => bl[j].some
    ELSE NumSlots

\* mutant: a full table takes the new block in its last slot
Lab_add_memory_overwrites(bl, tu, s, sz) ==
    LET i == Lab_first_none(bl)
    IN  IF i < NumSlots
        THEN LabResult("Ok", 0, [bl EXCEPT ![i] = Some(s, sz, FALSE)], tu)
        ELSE LabResult("Ok", 0, [bl EXCEPT ![NumSlots - 1] = Some(s, sz, FALSE)], tu)

Lab_add_memory_result(bl, tu, s, sz) ==
    LET i == Lab_first_none(bl)
    IN  IF i < NumSlots
        THEN LabResult("Ok", 0, [bl EXCEPT ![i] = Some(s, sz, FALSE)], tu)
        ELSE LabResult("NoMemory", 0, bl, tu)

Lab_add_memory(s, sz) ==
    /\ CanCall
    /\ LET r == Lab_add_memory_result(blocks, total_used, s, sz)
       IN  /\ blocks' = r.blocks
           /\ total_used' = r.total_used
           /\ added' = IF r.res = "Ok" THEN Append(added, <<s, sz>>) ELSE added
           /\ LabReturns("add_memory", s, sz, r.res, r.val)
    /\ lifecycle' = AfterCall
    /\ UNCHANGED <<live, deallocs_ok>>
    /\ UNCHANGED <<memory_pool_start, memory_pool_size>>
    /\ UNCHANGED earlyVars

\* alloc: (b.start + align - 1) & !(align - 1), in wrapping arithmetic
Lab_aligned_start(b, align) ==
    BitAnd(Wrap(Wrap(b.start + align) - 1), BitNot(align - 1))

\* mutant: a block in use passes too
Lab_candidate_any(b, size) == b.some /\ b.size >= size

\* alloc: the block passes `!b.in_use && b.size >= size`
Lab_candidate(b, size) == b.some /\ ~b.in_use /\ b.size >= size

\* alloc: an addition of the fit test overflows
Lab_fit_overflows(b, size, align) ==
    \/ Overflows(b.start + align)
    \/ Overflows(Lab_aligned_start(b, align) + size)
    \/ Overflows(b.start + b.size)

\* alloc: `end <= b.start + b.size`, in wrapping arithmetic
Lab_fits(b, size, align) ==
    Wrap(Lab_aligned_start(b, align) + size) <= Wrap(b.start + b.size)

RECURSIVE Lab_alloc_scan(_, _, _, _)
\* alloc: the scan of the table from slot i on: the slot accepted, or the
\* slot whose fit test panics, or none
Lab_alloc_scan(bl, i, size, align) ==
    IF i >= NumSlots THEN [kind |-> "none", slot |-> NumSlots]
    ELSE IF Lab_candidate(bl[i], size)
         THEN IF overflow_checks /\ Lab_fit_overflows(bl[i], size, align)
              THEN [kind |-> "panic", slot |-> i]
              ELSE IF Lab_fits(bl[i], size, align)
                   THEN [kind |-> "found", slot |-> i]
                   ELSE Lab_alloc_scan(bl, i + 1, size, align)
         ELSE Lab_alloc_scan(bl, i + 1, size, align)

\* alloc: the block is marked in use, total_used grows (a checked overflow
\* panics there, before the size is overwritten), the size field becomes the
\* requested size, and NonNull::new(aligned_start).unwrap() panics on null
\* mutant: the block keeps its size when it is allocated
Lab_alloc_keeps_size(bl, tu, size, align) ==
    LET f == Lab_alloc_scan(bl, 0, size, align)
        i == f.slot
    IN  CASE f.kind = "none" -> LabResult("NoMemory", 0, bl, tu)
          [] f.kind = "panic" -> LabResult("Panic", 0, bl, tu)
          [] f.kind = "found" ->
                LET a == Lab_aligned_start(bl[i], align)
                IN  IF overflow_checks /\ Overflows(tu + size)
                    THEN LabResult("Panic", 0, [bl EXCEPT ![i].in_use = TRUE], tu)
                    ELSE LabResult(IF a = 0 THEN "Panic" ELSE "Ok", a,
                                   [bl EXCEPT ![i].in_use = TRUE], Wrap(tu + size))

Lab_alloc_result(bl, tu, size, align) ==
    LET f == Lab_alloc_scan(bl, 0, size, align)
        i == f.slot
    IN  CASE f.kind = "none" -> LabResult("NoMemory", 0, bl, tu)
          [] f.kind = "panic" -> LabResult("Panic", 0, bl, tu)
          [] f.kind = "found" ->
                LET a == Lab_aligned_start(bl[i], align)
                IN  IF overflow_checks /\ Overflows(tu + size)
                    THEN LabResult("Panic", 0, [bl EXCEPT ![i].in_use = TRUE], tu)
                    ELSE LabResult(IF a = 0 THEN "Panic" ELSE "Ok", a,
                                   [bl EXCEPT ![i].in_use = TRUE, ![i].size = size],
                                   Wrap(tu + size))

Lab_alloc(size, align) ==
    /\ CanCall
    /\ LET r == Lab_alloc_result(blocks, total_used, size, align)
       IN  /\ blocks' = r.blocks
           /\ total_used' = r.total_used
           /\ live' = IF r.res = "Ok" THEN live \cup {<<r.val, size>>} ELSE live
           /\ IF r.res = "Panic"
              THEN LabPanics("alloc", size, align)
              ELSE LabReturns("alloc", size, align, r.res, r.val)
    /\ lifecycle' = AfterCall
    /\ UNCHANGED <<added, deallocs_ok>>
    /\ UNCHANGED <<memory_pool_start, memory_pool_size>>
    /\ UNCHANGED earlyVars

\* mutant: the block found need not be in use
Lab_dealloc_slot_any(bl, addr) ==
    LET hit(i) == bl[i].some /\ bl[i].start = addr
    IN  IF \E i \in Slots : hit(i)
        THEN CHOOSE i \in Slots : hit(i) /\ \A j \in Slots : j < i => ~hit(j)
        ELSE NumSlots

\* dealloc: the first slot holding an in-use block that starts at addr, or
\* NumSlots when there is none
Lab_dealloc_slot(bl, addr) ==
    LET hit(i) == bl[i].some /\ bl[i].start = addr /\ bl[i].in_use
    IN  IF \E i \in Slots : hit(i)
        THEN CHOOSE i \in Slots : hit(i) /\ \A j \in Slots : j < i => ~hit(j)
        ELSE NumSlots

\* mutant: the block is freed but total_used keeps its bytes
Lab_dealloc_keeps_used(bl, tu, addr, size) ==
    LET i == Lab_dealloc_slot(bl, addr)
    IN  IF i >= NumSlots THEN LabResult("Unit", 0, bl, tu)
        ELSE LabResult("Unit", 0, [bl EXCEPT ![i].in_use = FALSE], tu)

\* mutant: total_used shrinks but the block stays in use
Lab_dealloc_keeps_in_use(bl, tu, addr, size) ==
    LET i == Lab_dealloc_slot(bl, addr)
    IN  IF i >= NumSlots THEN LabResult("Unit", 0, bl, tu)
        ELSE LabResult("Unit", 0, bl, Wrap(tu - size))

Lab_dealloc_result(bl, tu, addr, size) ==
    LET i == Lab_dealloc_slot(bl, addr)
    IN  IF i >= NumSlots THEN LabResult("Unit", 0, bl, tu)
        ELSE IF overflow_checks /\ Overflows(tu - size)
             THEN LabResult("Panic", 0, [bl EXCEPT ![i].in_use = FALSE], tu)
             ELSE LabResult("Unit", 0, [bl EXCEPT ![i].in_use = FALSE], Wrap(tu - size))

Lab_dealloc(addr, size) ==
    /\ CanCall
    /\ LET r == Lab_dealloc_result(blocks, total_used, addr, size)
       IN  /\ blocks' = r.blocks
           /\ total_used' = r.total_used
           /\ IF r.res = "Panic"
              THEN LabPanics("dealloc", addr, size)
              ELSE LabReturns("dealloc", addr, size, r.res, r.val)
    /\ deallocs_ok' = (deallocs_ok /\ <<addr, size>> \in live)
    /\ live' = live \ {<<addr, size>>}
    /\ lifecycle' = AfterCall
    /\ UNCHANGED added
    /\ UNCHANGED <<memory_pool_start, memory_pool_size>>
    /\ UNCHANGED earlyVars

Lab_total_bytes == memory_pool_size

Lab_used_bytes == total_used

Lab_available_bytes == Wrap(memory_pool_size - total_used)

---------------------------------------------------------------------------
(* Inputs of the LabByteAllocator calls *)

\* a pool in the lower half of the address space and one in its top quarter
TopStart == Modulus - Modulus \div 4 + PAGE_SIZE
PoolStarts == {LowStart, TopStart}
PoolSizes == {PAGE_SIZE}

\* added ranges: one that repeats the low pool, and a disjoint one whose
\* start is not 16-aligned
OddStart == 3 * PAGE_SIZE + 8
AddStarts == {LowStart, OddStart}
AddSizes == {PAGE_SIZE}

\* Layouts: size rounded up to align stays below isize::MAX = Modulus/2 - 1
LabSizes == {256, PAGE_SIZE}
HugeAlign == Modulus \div 4
LabAligns == {1, 16, HugeAlign}

\* addresses passed to dealloc: the block starts and an aligned address
FreeAddrs == {LowStart, OddStart, OddStart + 8, TopStart}

---------------------------------------------------------------------------
(* Specifications *)

Init ==
    /\ start = 0 /\ b_pos = 0 /\ p_pos = 0 /\ end = 0
    /\ memory_pool_start = 0 /\ memory_pool_size = 0
    /\ blocks = [i \in Slots |-> None]
    /\ total_used = 0
    /\ overflow_checks \in BOOLEAN
    /\ panicked = FALSE
    /\ last = NoCall
    /\ prev = NoCall
    /\ ncalls = 0
    /\ granted = {}
    /\ lifecycle = "new"
    /\ added = <<>>
    /\ live = {}
    /\ deallocs_ok = TRUE

EarlyNext ==
    \/ \E s \in InitStarts, sz \in InitSizes : Early_init(s, sz)
    \/ \E s \in InitStarts, sz \in InitSizes : Early_add_memory(s, sz)
    \/ \E size \in AllocSizes, align \in AllocAligns : Early_alloc(size, align)
    \/ \E pos \in InitStarts, size \in {8} : Early_dealloc(pos, size)
    \/ \E n \in PageCounts, k \in AlignPow2s : Early_alloc_pages(n, k)
    \/ \E pos \in InitStarts, n \in {1} : Early_dealloc_pages(pos, n)

EarlySpec == Init /\ [][EarlyNext]_vars

LabNext ==
    \/ \E s \in PoolStarts, sz \in PoolSizes : Lab_init(s, sz)
    \/ \E s \in AddStarts, sz \in AddSizes : Lab_add_memory(s, sz)
    \/ \E size \in LabSizes, align \in LabAligns : Lab_alloc(size, align)
    \/ \E addr \in FreeAddrs, size \in LabSizes : Lab_dealloc(addr, size)

LabSpec == Init /\ [][LabNext]_vars

---------------------------------------------------------------------------
(* Mathematical (unbounded) rounding, as the specification states it *)

RoundUpTo(x, align) == ((x + align - 1) \div align) * align

RoundDownTo(x, align) == x - (x % align)

CursorsOrdered == start <= b_pos /\ b_pos <= p_pos /\ p_pos <= end

---------------------------------------------------------------------------
(* Claims about the EarlyAllocator, checked under EarlySpec *)

\* C1: in every reachable state start <= b_pos <= p_pos <= end.
\* Violated: alloc computes alloc_start + size without an overflow check, so
\* a wrapped alloc_end passes the test against p_pos and lands below start.
C1_CursorOrder == CursorsOrdered

\* C2: on every call other than init, start and end do not change, b_pos
\* does not decrease and p_pos does not increase.
\* Violated by the same wrapped alloc_end as C1: b_pos decreases.
C2_Monotone ==
    [][last'.op # "init" =>
          /\ start' = start
          /\ end' = end
          /\ b_pos' >= b_pos
          /\ p_pos' <= p_pos]_vars

\* C3 as stated: used_bytes + available_bytes + used_pages*PAGE_SIZE equals
\* total_bytes after every operation, for every region and every alignment.
\* It is stated here for the states whose cursors are in order, where none of
\* the accessors wraps; it fails there as soon as end - p_pos is not a
\* multiple of PAGE_SIZE.
C3_AccountingOriginal ==
    CursorsOrdered =>
        Early_used_bytes + Early_available_bytes + Early_used_pages * PAGE_SIZE
            = Early_total_bytes

\* C3 amended: in usize arithmetic used_bytes + available_bytes +
\* used_pages*PAGE_SIZE + (end - p_pos) % PAGE_SIZE equals total_bytes in every
\* state; without the remainder term the sum equals total_bytes in every state
\* whose cursors are in order and where end - p_pos is a multiple of PAGE_SIZE.
C3_AccountingWithRemainder ==
    LET pagesBytes == Early_used_pages * PAGE_SIZE
        remainder == Wrap(end - p_pos) % PAGE_SIZE
    IN  /\ Wrap(Early_used_bytes + Early_available_bytes + pagesBytes + remainder)
               = Early_total_bytes
        /\ (CursorsOrdered /\ remainder = 0) =>
               Early_used_bytes + Early_available_bytes + pagesBytes
                   = Early_total_bytes

\* C3 witness: bytes and pages have been allocated from a region whose end is
\* not page aligned, and the pages area is not a whole number of pages.
C3_Witness ==
    /\ last.op = "alloc_pages" /\ last.res = "Ok"
    /\ CursorsOrdered
    /\ b_pos > start
    /\ Wrap(end - p_pos) % PAGE_SIZE # 0

\* C4: alloc(size, align) returns NoMemory when round_up(b_pos, align) + size
\* exceeds p_pos, and otherwise returns a = round_up(b_pos, align) and sets
\* b_pos = a + size, leaving start, p_pos and end unchanged.
\* Violated when a + size does not fit a usize: the call panics or succeeds.
C4_AllocContract ==
    [][last'.op = "alloc" =>
          LET size == last'.a
              align == last'.b
              a == RoundUpTo(b_pos, align)
          IN  IF a + size > p_pos
              THEN last'.res = "NoMemory"
              ELSE /\ last'.res = "Ok"
                   /\ last'.val = a
                   /\ b_pos' = a + size
                   /\ UNCHANGED <<start, p_pos, end>>]_vars

\* C5: alloc_pages(num_pages, align_pow2), with size = num_pages*PAGE_SIZE and
\* c = round_down(p_pos - size, 2^align_pow2) taken in usize, returns NoMemory
\* and leaves p_pos unchanged when c < b_pos or c > p_pos, and otherwise
\* returns c and sets p_pos = c, leaving start, b_pos and end unchanged.
\* Stated for an initialised allocator.
\* Violated: with overflow checks p_pos - size panics when size > p_pos.
C5_AllocPagesContract ==
    [][(last'.op = "alloc_pages" /\ end # 0) =>
          LET size == last'.a * PAGE_SIZE
              c == RoundDownTo(Wrap(p_pos - size), 2 ^ last'.b)
          IN  IF c < b_pos \/ c > p_pos
              THEN last'.res = "NoMemory" /\ p_pos' = p_pos
              ELSE /\ last'.res = "Ok"
                   /\ last'.val = c
                   /\ p_pos' = c
                   /\ UNCHANGED <<start, b_pos, end>>]_vars

---------------------------------------------------------------------------
(* Claims about the LabByteAllocator, checked under LabSpec *)

\* the lowest slot of the table bl that satisfies P, or NumSlots
LowestSlot(P(_)) ==
    IF \E i \in Slots : P(i)
    THEN CHOOSE i \in Slots : P(i) /\ \A j \in Slots : j < i => ~P(j)
    ELSE NumSlots

DistinctStarts(bl) ==
    \A i, j \in Slots :
        (i # j /\ bl[i].some /\ bl[j].some) => bl[i].start # bl[j].start

TableFull(bl) == \A i \in Slots : bl[i].some

\* C7: init(start, size), in any state, leaves {start, size, in_use = false}
\* in slot 0 and every other slot empty, and sets total_used = 0, so that
\* used_bytes() = 0 and available_bytes() = size.
\* Violated: init writes slot 0 only and does not touch total_used.
C7_InitResets ==
    [][last'.op = "init" =>
          /\ blocks' = [i \in Slots |->
                          IF i = 0 THEN Some(last'.a, last'.b, FALSE) ELSE None]
          /\ total_used' = 0
          /\ Lab_used_bytes' = 0
          /\ Lab_available_bytes' = last'.b]_vars

\* C8: alloc(size, align) takes the lowest slot whose block is free, has
\* size >= the requested size and satisfies round_up(start, align) + size <=
\* start + size of the block; it returns round_up(start, align), marks the block
\* in use, sets its size to the requested size, adds size to total_used and
\* changes no other slot; it returns NoMemory exactly when no slot qualifies.
\* Violated: when start + align - 1 does not fit a usize the call panics.
C8_FirstFit ==
    [][last'.op = "alloc" =>
          LET size == last'.a
              align == last'.b
              ok(i) == /\ blocks[i].some
                       /\ ~blocks[i].in_use
                       /\ blocks[i].size >= size
                       /\ RoundUpTo(blocks[i].start, align) + size
                              <= blocks[i].start + blocks[i].size
              i == LowestSlot(ok)
          IN  IF i < NumSlots
              THEN /\ last'.res = "Ok"
                   /\ last'.val = RoundUpTo(blocks[i].start, align)
                   /\ blocks' = [blocks EXCEPT ![i].in_use = TRUE, ![i].size = size]
                   /\ total_used' = Wrap(total_used + size)
              ELSE /\ last'.res = "NoMemory"
                   /\ UNCHANGED <<blocks, total_used>>]_vars

\* C9: in every reachable state whose blocks have pairwise distinct starts,
\* if alloc(size, align = 1) succeeds and returns a, then dealloc(a, same
\* layout) brings used_bytes() back to its value before the alloc, and the
\* same alloc made right after returns a again.
C9_AllocDeallocRealloc ==
    \A size \in LabSizes :
        LET r1 == Lab_alloc_result(blocks, total_used, size, 1)
            r2 == Lab_dealloc_result(r1.blocks, r1.total_used, r1.val, size)
            r3 == Lab_alloc_result(r2.blocks, r2.total_used, size, 1)
        IN  (~panicked /\ DistinctStarts(blocks) /\ r1.res = "Ok") =>
                /\ r2.res = "Unit"
                /\ r2.total_used = total_used
                /\ r3.res = "Ok"
                /\ r3.val = r1.val

\* C9 witness: in a table of several blocks with distinct starts, one of them
\* in use, an alloc with align 1 has just returned the address that the call
\* before it freed with the same layout.
C9_Witness ==
    /\ prev.op = "dealloc" /\ last.op = "alloc"
    /\ last.res = "Ok" /\ last.b = 1
    /\ prev.a = last.val /\ prev.b = last.a
    /\ DistinctStarts(blocks)
    /\ \E i \in Slots : blocks[i].some /\ blocks[i].start = last.val /\ blocks[i].in_use
    /\ total_used = last.a

\* C10: add_memory(start, size) stores {start, size, in_use = false} in the
\* lowest empty slot and returns Ok, changing no other slot, total_used or
\* total_bytes(); with every slot occupied it returns NoMemory and changes
\* nothing.  No call empties a slot, so a full table stays full and every
\* later add_memory fails.
C10_AddMemory ==
    [][/\ last'.op = "add_memory" =>
            LET empty(i) == ~blocks[i].some
                i == LowestSlot(empty)
            IN  IF i < NumSlots
                THEN /\ last'.res = "Ok"
                     /\ blocks' = [blocks EXCEPT ![i] = Some(last'.a, last'.b, FALSE)]
                     /\ total_used' = total_used
                     /\ Lab_total_bytes' = Lab_total_bytes
                ELSE /\ last'.res = "NoMemory"
                     /\ UNCHANGED labVars
       /\ \A i \in Slots : blocks[i].some => blocks'[i].some
       /\ (TableFull(blocks) /\ last'.op = "add_memory") => last'.res = "NoMemory"]_vars

\* C10 witness: after init, add_memory calls that filled the table and an
\* alloc, a further add_memory has failed.
C10_Witness ==
    /\ last.op = "add_memory" /\ last.res = "NoMemory"
    /\ prev.op = "alloc" /\ prev.res = "Ok"
    /\ memory_pool_size # 0
    /\ TableFull(blocks)


---------------------------------------------------------------------------
(* LabByteAllocator: capacity loss and the failure policy *)

\* the table holds the pool as one free block and nothing is in use
FreshPool ==
    /\ ~panicked
    /\ memory_pool_size > 0
    /\ blocks[0] = Some(memory_pool_start, memory_pool_size, FALSE)
    /\ \A i \in Slots : i # 0 => ~blocks[i].some
    /\ total_used = 0

\* after alloc(s, 1) and the dealloc of its address on a fresh pool of size S:
\* a larger request fails with all S bytes available, a request up to s succeeds
LossAfter(s) ==
    LET S  == memory_pool_size
        r1 == Lab_alloc_result(blocks, total_used, s, 1)
        r2 == Lab_dealloc_result(r1.blocks, r1.total_used, r1.val, s)
    IN  /\ r1.res = "Ok"
        /\ r2.res = "Unit"
        /\ Wrap(S - r2.total_used) = S
        /\ \A s2 \in {s + 1, S - 1, S} :
              s < s2 /\ s2 <= S =>
                  Lab_alloc_result(r2.blocks, r2.total_used, s2, 1).res = "NoMemory"
        /\ \A s3 \in {1, s - 1, s} :
              0 < s3 /\ s3 <= s =>
                  Lab_alloc_result(r2.blocks, r2.total_used, s3, 1).res = "Ok"

\* alloc leaves the set of blocks and their starts as they are
AllocInsertsNothing ==
    last'.op = "alloc" =>
        \A i \in Slots : /\ blocks'[i].some = blocks[i].some
                         /\ blocks'[i].start = blocks[i].start

\* a block that is in the table stays there and its size does not grow,
\* unless init puts a new block in its slot
SizeNeverGrows ==
    \A i \in Slots :
        blocks[i].some /\ ~(last'.op = "init" /\ i = 0) =>
            blocks'[i].some /\ blocks'[i].size <= blocks[i].size

\* C11: alloc never inserts the remainder of a split block and a block's
\* size never grows once it is in the table; so on a pool of one block of
\* size S, after alloc(s, 1) with s < S and the dealloc of the address it
\* returned, every alloc(s2, 1) with s < s2 <= S returns NoMemory although
\* available_bytes() is S, while every alloc(s3, 1) with s3 <= s succeeds.
C11_CapacityLoss ==
    /\ [](FreshPool => \A s \in LabSizes : s < memory_pool_size => LossAfter(s))
    /\ [][AllocInsertsNothing /\ SizeNeverGrows]_vars

\* init, alloc(s, align), dealloc of its address, then an alloc of the whole
\* pool that fails with every byte available
C11_Witness ==
    /\ ncalls = 4 /\ lifecycle = "active" /\ ~panicked
    /\ prev.op = "dealloc"
    /\ last.op = "alloc" /\ last.a = memory_pool_size /\ last.b = 1
    /\ last.res = "NoMemory"
    /\ blocks[0].some /\ ~blocks[0].in_use /\ blocks[0].size < memory_pool_size
    /\ Lab_available_bytes = memory_pool_size

\* C12: an alloc that returns NoMemory leaves the table and total_used as
\* they were, and so does a dealloc whose address is the start of no in-use
\* block (a second dealloc of a freed address among them).
C12_FailureFrame ==
    [][ /\ (last'.op = "alloc" /\ last'.res = "NoMemory") =>
              UNCHANGED <<blocks, total_used>>
        /\ ( /\ last'.op = "dealloc"
             /\ ~\E i \in Slots : /\ blocks[i].some /\ blocks[i].in_use
                                  /\ blocks[i].start = last'.a ) =>
              UNCHANGED <<blocks, total_used>>
      ]_vars

\* init, an alloc, the dealloc of its address and the same dealloc again
C12_Witness ==
    /\ ncalls = 4 /\ lifecycle = "active" /\ ~panicked
    /\ prev.op = "dealloc" /\ last = prev
    /\ blocks[0] = Some(last.a, last.b, FALSE)
    /\ last.b < memory_pool_size
    /\ total_used = 0
    /\ ~deallocs_ok

---------------------------------------------------------------------------
(* EarlyAllocator: the order and the safety of what is returned *)

\* the range [a, a + size) meets nothing returned since the last init
MeetsNoGrant(a, size) ==
    \A g \in granted : a + size <= g.addr \/ g.addr + g.size <= a

\* C13: within one init epoch the addresses returned by the successful alloc
\* calls never decrease, and the addresses returned by the successful
\* alloc_pages calls never increase, whatever calls come between them.
C13_ReturnOrder ==
    [][ end # 0 =>
          /\ (last'.op = "alloc" /\ last'.res = "Ok") =>
                \A g \in granted : g.kind = "bytes" => g.addr <= last'.val
          /\ (last'.op = "alloc_pages" /\ last'.res = "Ok") =>
                \A g \in granted : g.kind = "pages" => last'.val <= g.addr
      ]_vars

\* C15: with wrapping arithmetic alloc_pages succeeds only if
\* num_pages * PAGE_SIZE <= p_pos - b_pos; when the request exceeds the space
\* left (p_pos - size wrapping included) it returns NoMemory and leaves p_pos
\* as it was, so no wrapped address is returned.  Stated for an initialised
\* allocator whose cursors are in order.
C15_PagesGuard ==
    [][ ( /\ last'.op = "alloc_pages" /\ ~overflow_checks
          /\ end # 0 /\ b_pos <= p_pos
          /\ last'.a * PAGE_SIZE > p_pos - b_pos ) =>
              last'.res = "NoMemory" /\ p_pos' = p_pos
      ]_vars

\* C16: every successful alloc(size, align) returns a multiple of align whose
\* range lies in [start, end), every successful alloc_pages(num_pages,
\* align_pow2) returns a multiple of 2^align_pow2 whose range lies in
\* [start, end), and no two ranges returned in one init epoch overlap.
\* Stated for an initialised allocator and align_pow2 below the word width.
C16_MemorySafety ==
    [][ end # 0 =>
          /\ (last'.op = "alloc" /\ last'.res = "Ok") =>
                /\ last'.val % last'.b = 0
                /\ start <= last'.val /\ last'.val + last'.a <= end
                /\ MeetsNoGrant(last'.val, last'.a)
          /\ (last'.op = "alloc_pages" /\ last'.res = "Ok" /\ last'.b < WordBits) =>
                /\ last'.val % (2 ^ last'.b) = 0
                /\ start <= last'.val /\ last'.val + last'.a * PAGE_SIZE <= end
                /\ MeetsNoGrant(last'.val, last'.a * PAGE_SIZE)
      ]_vars

---------------------------------------------------------------------------
(* LabByteAllocator: the table, the live allocations and the accounting *)

\* the ranges <<start, size>> r1 and r2 share no address
Apart(r1, r2) == r1[1] + r1[2] <= r2[1] \/ r2[1] + r2[2] <= r1[1]

\* the range r1 lies in the range r2
Within(r1, r2) == r2[1] <= r1[1] /\ r1[1] + r1[2] <= r2[1] + r2[2]

PoolRange == <<memory_pool_start, memory_pool_size>>

\* add_memory was called only with ranges apart from the pool and from each other
AddedApart ==
    /\ \A i \in DOMAIN added : Apart(added[i], PoolRange)
    /\ \A i, j \in DOMAIN added : i # j => Apart(added[i], added[j])

\* init was the first call and the only init
InitOnce == lifecycle = "active"

BlockRange(b) == <<b.start, b.size>>

\* the blocks of the table are pairwise apart
BlocksApart ==
    \A i, j \in Slots :
        (i # j /\ blocks[i].some /\ blocks[j].some) =>
            Apart(BlockRange(blocks[i]), BlockRange(blocks[j]))

Min(x, y) == IF x <= y THEN x ELSE y
Max(x, y) == IF x >= y THEN x ELSE y

RECURSIVE PoolBytesInBlocks(_)
\* the number of bytes of the pool that lie in the blocks of slots i and up
PoolBytesInBlocks(i) ==
    IF i >= NumSlots THEN 0
    ELSE LET b  == blocks[i]
             lo == Max(b.start, memory_pool_start)
             hi == Min(b.start + b.size, memory_pool_start + memory_pool_size)
         IN  (IF b.some /\ hi > lo THEN hi - lo ELSE 0) + PoolBytesInBlocks(i + 1)

RECURSIVE SumInUse(_, _)
\* the sum of the size fields of the blocks in use in slots i and up
SumInUse(bl, i) ==
    IF i >= NumSlots THEN 0
    ELSE (IF bl[i].some /\ bl[i].in_use THEN bl[i].size ELSE 0) + SumInUse(bl, i + 1)

\* C14: in every reachable state after init, add_memory having been called
\* only with ranges apart from the pool and from each other, the blocks of
\* the table are pairwise non-overlapping and together cover the pool.
C14_BlocksTileThePool ==
    (InitOnce /\ AddedApart /\ ~panicked) =>
        BlocksApart /\ PoolBytesInBlocks(0) = memory_pool_size

\* the allocation returned by the call just made lies in the pool or in an
\* added range and meets no allocation that is live
ReturnedIsSafe ==
    LET r == <<last'.val, last'.a>>
    IN  /\ \/ Within(r, PoolRange)
           \/ \E i \in DOMAIN added : Within(r, added[i])
        /\ \A l \in live : Apart(l, r)

C18_DeallocFindsBlock ==
    [][ (InitOnce /\ AddedApart /\ deallocs_ok /\ last'.op = "alloc" /\ last'.res = "Ok") =>
          /\ \E i \in Slots : /\ ~blocks[i].in_use /\ blocks'[i].in_use
                              /\ blocks'[i].start = last'.val
          /\ LET r == Lab_dealloc_result(blocks', total_used', last'.val, last'.a)
             IN  /\ r.total_used = total_used
                 /\ \A i \in Slots : r.blocks[i].in_use = blocks[i].in_use
      ]_vars

\* C19: in every reachable state after init, those reached through
\* add_memory followed by alloc included, used_bytes() <= total_bytes(), so
\* available_bytes() does not underflow.
C19_UsedWithinTotal ==
    (InitOnce /\ AddedApart /\ deallocs_ok /\ ~panicked) =>
        Lab_used_bytes <= Lab_total_bytes

====
